---- MODULE Spec2Model ----
(***************************************************************************)
(* Model of the citation-enforcement QA pipeline of the IKMS multi-agent   *)
(* RAG service: POST /qa (api.py) -> answer_question (qa_service.py) ->     *)
(* retrieval_node / summarization_node / verification_node (agents.py).     *)
(*                                                                         *)
(* Text is a sequence of lexical symbols.  A symbol is a string that the   *)
(* regular expressions of the code never look inside of: a word           *)
(* ("Vector", "is", "42"), one whitespace character (" ", "\n"), one       *)
(* sentence terminator (".", "!", "?") or one citation token ("[C1]").     *)
(* Every string operation of the code (strip, re.split, re.search,         *)
(* re.findall, split, endswith, slicing, join, substring test, ==) is      *)
(* modelled by what it does to such a sequence.                            *)
(***************************************************************************)
EXTENDS Naturals, Sequences, FiniteSets, TLC

VARIABLES
    pc,            \* position of the request in the pipeline
    question,      \* payload.question
    docs,          \* ToolMessage.artifact: the chunks the retrieval tool returned
    serialized,    \* serialize_chunks_with_ids(docs): (context block, citation map)
    context,       \* state["context"]
    citations,     \* state["citations"]
    draft_answer,  \* state["draft_answer"]
    raw_answer,    \* result.content of the verification generator
    answer,        \* state["answer"]
    result,        \* the dict answer_question returns
    exc,           \* the exception in flight, if any
    response       \* the HTTP response of POST /qa

vars == <<pc, question, docs, serialized, context, citations, draft_answer,
          raw_answer, answer, result, exc, response>>

(***************************************************************************)
(* Bounds of the model.                                                    *)
(***************************************************************************)
\* Number of catalogue pieces a generated text is concatenated from.
MaxPieces == 2
\* Number of chunks a retrieval call returns.
MaxChunks == 2
\* Largest n for which "[C<n>]" is written by a generator or a chunk.
MaxCitationId == 9

(***************************************************************************)
(* Lexical classes.                                                        *)
(***************************************************************************)
\* Characters matched by \s and removed by str.strip().
Whitespace == {" ", "\n"}

\* The character class [.!?] of the sentence splitter.
Terminators == {".", "!", "?"}

\* f"[C{id}]" for the digit string id.
CitationToken(id) == "[C" \o id \o "]"

\* f"C{i+1}" of the serializer, for the 1-based position n = i+1.
ChunkId(n) == "C" \o ToString(n)

\* The digit strings \d+ that occur in citation tokens of the model.
IdStrings == {ToString(n) : n \in 1..MaxCitationId}

\* The symbols that match \[C(\d+)\].
CitationTokens == {CitationToken(id) : id \in IdStrings}

\* A symbol that matches \[C(\d+)\].
IsCitation(sym) == sym \in CitationTokens

\* The group (\d+) of a symbol that matches \[C(\d+)\].
CitationIdOf(sym) == CHOOSE id \in IdStrings : sym = CitationToken(id)

\* Words written with digits.
DigitWords == {"42"}

\* any(ch.isdigit() for ch in sym)
SymHasDigit(sym) == sym \in DigitWords \/ sym \in IdStrings \/ IsCitation(sym)

\* The alternation (is|are|has|uses|supports|provides|includes|contains|requires).
Verbs == {"is", "are", "has", "uses", "supports", "provides", "includes",
          "contains", "requires"}

\* str.lower() on the words of the model that are not already lower case.
Lower(sym) ==
    CASE sym = "IS" -> "is"
      [] sym = "Has" -> "has"
      [] OTHER -> sym

\* A symbol made of \w characters only (a word); \b lies between it and a
\* neighbour that is not one.
IsWord(sym) == sym \notin Whitespace /\ sym \notin Terminators /\ ~IsCitation(sym)
               /\ sym \notin {"(Page", ")"}

(***************************************************************************)
(* String operations on symbol sequences.                                  *)
(***************************************************************************)
RECURSIVE LStrip(_)
LStrip(s) == IF s # <<>> /\ Head(s) \in Whitespace THEN LStrip(Tail(s)) ELSE s

RECURSIVE RStrip(_)
RStrip(s) ==
    IF s # <<>> /\ s[Len(s)] \in Whitespace THEN RStrip(SubSeq(s, 1, Len(s) - 1))
    ELSE s

\* str.strip()
Strip(s) == RStrip(LStrip(s))

\* First index >= i of s that holds no whitespace (Len(s)+1 if none).
RECURSIVE SkipSpace(_, _)
SkipSpace(s, i) ==
    IF i <= Len(s) /\ s[i] \in Whitespace THEN SkipSpace(s, i + 1) ELSE i

\* re.split(r'(?<=[.!?])\s+', s): cut at every whitespace run that follows a
\* terminator; the run is dropped.
RECURSIVE SplitFrom(_, _, _)
SplitFrom(s, i, cur) ==
    IF i > Len(s) THEN <<cur>>
    ELSE IF s[i] \in Whitespace /\ i > 1 /\ s[i - 1] \in Terminators
         THEN <<cur>> \o SplitFrom(s, SkipSpace(s, i), <<>>)
         ELSE SplitFrom(s, i + 1, Append(cur, s[i]))

SplitSentences(s) == SplitFrom(s, 1, <<>>)

\* len(s.split()): the number of maximal runs of non-whitespace.
TokenCount(s) ==
    Cardinality({i \in 1..Len(s) :
        s[i] \notin Whitespace /\ (i = 1 \/ s[i - 1] \in Whitespace)})

\* re.search(r"\[C\d+\]", s)
HasCitation(s) == \E i \in 1..Len(s) : IsCitation(s[i])

\* re.findall(r"\[C(\d+)\]", s): the ids, in order of occurrence.
RECURSIVE FindAllIds(_)
FindAllIds(s) ==
    IF s = <<>> THEN <<>>
    ELSE IF IsCitation(Head(s)) THEN <<CitationIdOf(Head(s))>> \o FindAllIds(Tail(s))
         ELSE FindAllIds(Tail(s))

\* any(ch.isdigit() for ch in s)
HasDigit(s) == \E i \in 1..Len(s) : SymHasDigit(s[i])

\* A verb of the alternation stands at i between two \b.
VerbAt(s, i, ignorecase) ==
    /\ (IF ignorecase THEN Lower(s[i]) ELSE s[i]) \in Verbs
    /\ (i = 1 \/ ~IsWord(s[i - 1]))
    /\ (i = Len(s) \/ ~IsWord(s[i + 1]))

\* re.search(r"\b(is|are|...|requires)\b", s[, re.IGNORECASE])
HasVerb(s, ignorecase) == \E i \in 1..Len(s) : VerbAt(s, i, ignorecase)

\* s.endswith(c) for a one-character c
EndsWith(s, c) == s # <<>> /\ s[Len(s)] = c

\* s[:-1]
DropLast(s) == SubSeq(s, 1, Len(s) - 1)

\* ' '.join(parts)
RECURSIVE JoinSpace(_)
JoinSpace(parts) ==
    IF parts = <<>> THEN <<>>
    ELSE IF Len(parts) = 1 THEN parts[1]
         ELSE parts[1] \o <<" ">> \o JoinSpace(Tail(parts))

\* needle in s
Contains(s, needle) ==
    \E i \in 1..(Len(s) + 1) :
        /\ i + Len(needle) - 1 <= Len(s)
        /\ SubSeq(s, i, i + Len(needle) - 1) = needle

\* The words a b c ... as text with single spaces between them.
RECURSIVE Words(_)
Words(ws) ==
    IF ws = <<>> THEN <<>>
    ELSE IF Len(ws) = 1 THEN <<ws[1]>>
         ELSE <<ws[1], " ">> \o Words(Tail(ws))

\* "provided context does not contain information"
NoAnswerPhrase == Words(<<"provided", "context", "does", "not", "contain", "information">>)

\* "The provided context does not contain information to answer this question."
NO_ANSWER_TEXT ==
    <<"The", " ">> \o NoAnswerPhrase
        \o <<" ">> \o Words(<<"to", "answer", "this", "question">>) \o <<".">>

(***************************************************************************)
(* Citation enforcement: the inner pass of agents.py.                      *)
(***************************************************************************)
\* Token-count threshold of the factual classification: len(s.split()) > 5.
FactualTokenThreshold == 5

\* Token-count threshold of the forced fallback: len(s.split()) > 3.
ForcedTokenThreshold == 3

\* is_factual of _enforce_citations (verbs matched case-sensitively).
IsFactualInner(sentence) ==
    \/ HasDigit(sentence)
    \/ HasVerb(sentence, FALSE)
    \/ TokenCount(sentence) > FactualTokenThreshold

\* The loop body of _enforce_citations for one non-empty stripped sentence.
EnforceSentenceInner(sentence, first_id) ==
    IF HasCitation(sentence) THEN sentence
    ELSE IF IsFactualInner(sentence)
         THEN (IF EndsWith(sentence, ".") THEN DropLast(sentence) ELSE sentence)
                  \o <<" ", CitationToken(first_id), ".">>
         ELSE sentence

\* corrected_sentences of _enforce_citations.
RECURSIVE CorrectedInner(_, _)
CorrectedInner(sentences, first_id) ==
    IF sentences = <<>> THEN <<>>
    ELSE LET sentence == Strip(Head(sentences))
             rest == CorrectedInner(Tail(sentences), first_id)
         IN IF sentence = <<>> THEN rest
            ELSE <<EnforceSentenceInner(sentence, first_id)>> \o rest

\* _enforce_citations(answer, context)
EnforceCitations(ans, ctx) ==
    IF Contains(ans, NoAnswerPhrase) THEN ans
    ELSE LET available_citations == FindAllIds(ctx)
         IN IF available_citations = <<>> THEN ans
            ELSE JoinSpace(CorrectedInner(SplitSentences(Strip(ans)),
                                          available_citations[1]))

(***************************************************************************)
(* Citation enforcement: the outer pass and the forced fallback of         *)
(* qa_service.py.                                                          *)
(***************************************************************************)
\* is_factual of _enforce_citations_on_answer (verbs matched with re.IGNORECASE).
IsFactualOuter(s) ==
    \/ HasDigit(s)
    \/ HasVerb(s, TRUE)
    \/ TokenCount(s) > FactualTokenThreshold

\* s[:-1] if s ends with '.', '!' or '?', else s.
StripTerminator(s) ==
    IF EndsWith(s, ".") \/ EndsWith(s, "!") \/ EndsWith(s, "?") THEN DropLast(s) ELSE s

\* The loop body of _enforce_citations_on_answer for one non-empty stripped s.
EnforceSentenceOuter(s, first_id) ==
    IF HasCitation(s) THEN s
    ELSE IF IsFactualOuter(s)
         THEN StripTerminator(s) \o <<" ", CitationToken(first_id), ".">>
         ELSE s

\* corrected of _enforce_citations_on_answer.
RECURSIVE CorrectedOuter(_, _)
CorrectedOuter(sentences, first_id) ==
    IF sentences = <<>> THEN <<>>
    ELSE LET s == Strip(Head(sentences))
             rest == CorrectedOuter(Tail(sentences), first_id)
         IN IF s = <<>> THEN rest
            ELSE <<EnforceSentenceOuter(s, first_id)>> \o rest

\* _enforce_citations_on_answer(answer, context)
EnforceCitationsOnAnswer(ans, ctx) ==
    IF ans = <<>> THEN ans
    ELSE IF Contains(ans, NoAnswerPhrase) THEN ans
    ELSE LET available == FindAllIds(ctx)
         IN IF available = <<>> THEN ans
            ELSE JoinSpace(CorrectedOuter(SplitSentences(Strip(ans)), available[1]))

\* Mutant of the forced fallback: the threshold of the first pass (5) is used.
ForceSentenceHighThreshold(s, first) ==
    IF HasCitation(s) THEN s
    ELSE IF TokenCount(s) > FactualTokenThreshold
         THEN StripTerminator(s) \o <<" ", CitationToken(first), ".">>
         ELSE s

\* The loop body of the forced fallback for one non-empty stripped s.
ForceSentence(s, first) ==
    IF HasCitation(s) THEN s
    ELSE IF TokenCount(s) > ForcedTokenThreshold
         THEN StripTerminator(s) \o <<" ", CitationToken(first), ".">>
         ELSE s

\* forced of the forced fallback.
RECURSIVE Forced(_, _)
Forced(sentences, first) ==
    IF sentences = <<>> THEN <<>>
    ELSE LET s == Strip(Head(sentences))
             rest == Forced(Tail(sentences), first)
         IN IF s = <<>> THEN rest
            ELSE <<ForceSentence(s, first)>> \o rest

\* forced_answer of answer_question: first = citation_ids[0] if citation_ids else "1".
ForcedFallback(enforced, ctx) ==
    LET citation_ids == FindAllIds(ctx)
        first == IF citation_ids # <<>> THEN citation_ids[1] ELSE "1"
    IN JoinSpace(Forced(SplitSentences(Strip(enforced)), first))

\* Mutant of answer_question: the no-answer guard of line 76 is missing.
AnswerQuestionNoGuard(res) ==
    IF res.answer # <<>>
    THEN LET enforced == EnforceCitationsOnAnswer(res.answer, res.context)
         IN IF ~HasCitation(enforced)
            THEN [res EXCEPT !.answer = ForcedFallback(enforced, res.context)]
            ELSE [res EXCEPT !.answer = enforced]
    ELSE res

\* answer_question after run_qa_flow returned res = {answer, context, citations}.
AnswerQuestion(res) ==
    IF res.answer # <<>> /\ ~Contains(res.answer, NoAnswerPhrase)
    THEN LET enforced == EnforceCitationsOnAnswer(res.answer, res.context)
         IN IF ~HasCitation(enforced)
            THEN [res EXCEPT !.answer = ForcedFallback(enforced, res.context)]
            ELSE [res EXCEPT !.answer = enforced]
    ELSE res

(***************************************************************************)
(* Chunk serialization.                                                    *)
(***************************************************************************)
\* doc.metadata.get(key, "unknown")
MetadataGet(doc, key) ==
    IF key \in DOMAIN doc.metadata THEN doc.metadata[key] ELSE "unknown"

\* Length of the snippet prefix: doc.page_content[:120].
SnippetLen == 120

\* doc.page_content[:120] + "..."
Snippet(doc) ==
    SubSeq(doc.page_content, 1,
           IF Len(doc.page_content) < SnippetLen THEN Len(doc.page_content)
           ELSE SnippetLen) \o <<"...">>

\* f"[{chunk_id}] (Page {page})\n{doc.page_content}"
ChunkRendering(chunk_id, doc) ==
    <<"[" \o chunk_id \o "]", " ", "(Page", " ", MetadataGet(doc, "page"), ")", "\n">>
        \o doc.page_content

\* "\n\n".join(context_parts)
RECURSIVE JoinBlank(_)
JoinBlank(parts) ==
    IF parts = <<>> THEN <<>>
    ELSE IF Len(parts) = 1 THEN parts[1]
         ELSE parts[1] \o <<"\n", "\n">> \o JoinBlank(Tail(parts))

\* The dict built by citation_map[chunk_id] = {...} for i = 0 .. len(ds)-1, where
\* ids[n] is the chunk_id of the n-th chunk (n = i+1); a later assignment to the
\* same key overwrites an earlier one.
CitationEntries(ds, ids) ==
    [k \in {ids[n] : n \in 1..Len(ds)} |->
        LET last == CHOOSE n \in 1..Len(ds) :
                        /\ ids[n] = k
                        /\ \A m \in 1..Len(ds) : ids[m] = k => m <= n
        IN [page |-> MetadataGet(ds[last], "page"),
            source |-> MetadataGet(ds[last], "source"),
            snippet |-> Snippet(ds[last])]]

\* The chunk_id of every chunk of ds, in order: C1, C2, ...
ChunkIds(ds) == [n \in 1..Len(ds) |-> ChunkId(n)]

\* serialize_chunks_with_ids(docs)
SerializeChunksWithIds(ds) ==
    [context |-> JoinBlank([n \in 1..Len(ds) |-> ChunkRendering(ChunkIds(ds)[n], ds[n])]),
     citation_map |-> CitationEntries(ds, ChunkIds(ds))]

\* Mutant of retrieval_node: chunk ids counted from 0 (f"C{i}").
ZeroBasedChunkIds(ds) == [n \in 1..Len(ds) |-> "C" \o ToString(n - 1)]

RetrievalNodeZeroBased(ds) ==
    [context |-> JoinBlank([n \in 1..Len(ds) |->
                               ChunkRendering(ZeroBasedChunkIds(ds)[n], ds[n])]),
     citations |-> CitationEntries(ds, ZeroBasedChunkIds(ds))]

\* The state update retrieval_node returns for the chunks of the last ToolMessage.
RetrievalNodeUpdate(ds) ==
    [context |-> JoinBlank([n \in 1..Len(ds) |-> ChunkRendering(ChunkIds(ds)[n], ds[n])]),
     citations |-> CitationEntries(ds, ChunkIds(ds))]

\* citations = {} / citation_map = {}
EmptyCitations == CitationEntries(<<>>, <<>>)

(***************************************************************************)
(* The HTTP layer of POST /qa.                                             *)
(***************************************************************************)
\* Optional[...] values: None and a present value.
None == {}
Some(v) == {v}

\* No response sent yet.
NoResponse ==
    [status |-> 0, detail |-> None, answer |-> None, context |-> None,
     citations |-> None]

\* The HTTPException of status 400 as FastAPI sends it (the detail is written
\* here without the back quotes around the word question).
BadRequestResponse ==
    [status |-> 400, detail |-> Some("question must be a non-empty string."),
     answer |-> None, context |-> None, citations |-> None]

\* Mutant of unhandled_exception_handler: the exception text is sent to the caller.
LeakingExceptionHandler(e) ==
    [status |-> 500, detail |-> Some(e.message),
     answer |-> None, context |-> None, citations |-> None]

\* unhandled_exception_handler(request, exc) for an exception that is no HTTPException.
UnhandledExceptionResponse(e) ==
    [status |-> 500, detail |-> Some("Internal server error"),
     answer |-> None, context |-> None, citations |-> None]

\* Mutant of qa_endpoint: the no-answer branch passes context and citations on.
QAResponseKeepingContext(res) ==
    [status |-> 200, detail |-> None, answer |-> Some(res.answer),
     context |-> Some(res.context), citations |-> Some(res.citations)]

\* The QAResponse qa_endpoint builds from the result of answer_question.
QAResponseOf(res) ==
    IF res.answer = NO_ANSWER_TEXT
    THEN [status |-> 200, detail |-> None, answer |-> Some(res.answer),
          context |-> None, citations |-> None]
    ELSE [status |-> 200, detail |-> None, answer |-> Some(res.answer),
          context |-> Some(res.context), citations |-> Some(res.citations)]

\* No exception in flight.
NoException == [stage |-> "none", message |-> ""]

(***************************************************************************)
(* Inputs of one request.                                                  *)
(***************************************************************************)
\* Sequences over S of length 0..n.
SeqUpTo(S, n) == UNION {[1..k -> S] : k \in 0..n}

\* Question payloads: empty, blank, and a question.
Questions ==
    {<<>>, <<" ">>, Words(<<"What", "is", "HNSW">>) \o <<"?">>}

\* Chunks of the vector store: a plain one, and one whose text holds bracketed
\* tokens of its own and whose metadata has no page.
DocPlain ==
    [page_content |-> Words(<<"Vector", "databases", "enable", "similarity", "search">>)
                          \o <<".">>,
     metadata |-> [page |-> "3", source |-> "paper.pdf"]]

DocTagged ==
    [page_content |-> Words(<<"See", "[C9]", "and", "[C1]">>) \o <<".">>,
     metadata |-> [source |-> "notes.pdf"]]

Docs == {DocPlain, DocTagged}

ChunkLists == SeqUpTo(Docs, MaxChunks)

\* Sentences a generator may write.
Pieces ==
    { NO_ANSWER_TEXT,
      <<" ">>,
      Words(<<"Yes", "indeed">>) \o <<".">>,
      Words(<<"Maybe", "check", "the", "appendix">>) \o <<".">>,
      Words(<<"HNSW", "is", "fast">>) \o <<".">>,
      Words(<<"IS", "it", "fast">>) \o <<"?">>,
      Words(<<"It", "stores", "42", "vectors">>) \o <<"!">>,
      Words(<<"Vector", "databases", "enable", "similarity", "search">>) \o <<".">>,
      Words(<<"Vector", "databases", "enable", "fast", "similarity", "search">>)
          \o <<".", ".">>,
      Words(<<"Indexes", "speed", "search", "[C1]">>) \o <<".">>,
      Words(<<"Recall", "improves", "[C2]">>) \o <<".">>,
      Words(<<"Graphs", "help", "[C9]">>) \o <<".">> }

\* Texts a generator may return: up to MaxPieces pieces with single spaces between.
GeneratedTexts == {JoinSpace(ps) : ps \in SeqUpTo(Pieces, MaxPieces)}

\* Drafts of the summarization generator.
Drafts ==
    { NO_ANSWER_TEXT,
      Words(<<"Vector", "databases", "enable", "similarity", "search">>) \o <<".">> }

(***************************************************************************)
(* The request as a state machine.                                         *)
(***************************************************************************)
Init ==
    /\ pc = "request"
    /\ question \in Questions
    /\ docs = <<>>
    /\ serialized = SerializeChunksWithIds(<<>>)
    /\ context = <<>>
    /\ citations = EmptyCitations
    /\ draft_answer = <<>>
    /\ raw_answer = <<>>
    /\ answer = <<>>
    /\ result = [answer |-> <<>>, context |-> <<>>, citations |-> EmptyCitations]
    /\ exc = NoException
    /\ response = NoResponse

\* run_qa_flow: the nodes run in the order retrieval, summarization,
\* verification; the final state is what answer_question goes on with.
NextNode(node) ==
    CASE node = "retrieval" -> "summarization"
      [] node = "summarization" -> "verification"
      [] node = "verification" -> "answer"

\* raise inside a stage: the exception leaves run_qa_flow, answer_question and
\* qa_endpoint, none of which catches it.
Raise(stage, message) ==
    /\ exc' = [stage |-> stage, message |-> message]
    /\ pc' = "raised"

\* qa_endpoint up to the call of answer_question: the question is validated.
QaEndpoint ==
    /\ pc = "request"
    /\ IF Strip(question) = <<>>
       THEN /\ response' = BadRequestResponse
            /\ pc' = "done"
       ELSE /\ pc' = "retrieval"
            /\ UNCHANGED response
    /\ UNCHANGED <<question, docs, serialized, context, citations, draft_answer,
                   raw_answer, answer, result, exc>>

\* retrieval_node: the agent run ends with no ToolMessage.
RetrievalNodeNoToolMessage ==
    /\ pc = "retrieval"
    /\ context' = <<>>
    /\ citations' = EmptyCitations
    /\ pc' = NextNode("retrieval")
    /\ UNCHANGED <<question, docs, serialized, draft_answer, raw_answer, answer,
                   result, exc, response>>

\* retrieval_node: the last ToolMessage carries the chunks ds.
RetrievalNode ==
    /\ pc = "retrieval"
    /\ \E ds \in ChunkLists :
        /\ docs' = ds
        /\ serialized' = SerializeChunksWithIds(ds)
        /\ context' = RetrievalNodeUpdate(ds).context
        /\ citations' = RetrievalNodeUpdate(ds).citations
    /\ pc' = NextNode("retrieval")
    /\ UNCHANGED <<question, draft_answer, raw_answer, answer, result, exc, response>>

\* retrieval_node: retrieval_agent.invoke raises.
RetrievalNodeRaises ==
    /\ pc = "retrieval"
    /\ Raise("retrieval", "vector store unreachable")
    /\ UNCHANGED <<question, docs, serialized, context, citations, draft_answer,
                   raw_answer, answer, result, response>>

\* summarization_node: the generator returns a draft.
SummarizationNode ==
    /\ pc = "summarization"
    /\ draft_answer' \in Drafts
    /\ pc' = NextNode("summarization")
    /\ UNCHANGED <<question, docs, serialized, context, citations, raw_answer, answer,
                   result, exc, response>>

\* summarization_node: chat_model.invoke raises.
SummarizationNodeRaises ==
    /\ pc = "summarization"
    /\ Raise("draft", "generator call failed")
    /\ UNCHANGED <<question, docs, serialized, context, citations, draft_answer,
                   raw_answer, answer, result, response>>

\* verification_node: the generator returns text, the inner pass is applied to it.
VerificationNode ==
    /\ pc = "verification"
    /\ \E content \in GeneratedTexts :
        /\ raw_answer' = content
        /\ answer' = EnforceCitations(content, context)
    /\ pc' = NextNode("verification")
    /\ UNCHANGED <<question, docs, serialized, context, citations, draft_answer,
                   result, exc, response>>

\* verification_node: chat_model.invoke raises.
VerificationNodeRaises ==
    /\ pc = "verification"
    /\ Raise("verification", "generator call failed")
    /\ UNCHANGED <<question, docs, serialized, context, citations, draft_answer,
                   raw_answer, answer, result, response>>

\* verification_node: the generator returns content that is no string, and
\* answer.strip() of the inner pass raises.
VerificationNodeEnforcementRaises ==
    /\ pc = "verification"
    /\ FindAllIds(context) # <<>>
    /\ Raise("enforcement", "'list' object has no attribute 'strip'")
    /\ UNCHANGED <<question, docs, serialized, context, citations, draft_answer,
                   raw_answer, answer, result, response>>

\* answer_question after run_qa_flow, then the rest of qa_endpoint.
QaEndpointReturn ==
    /\ pc = "answer"
    /\ result' = AnswerQuestion([answer |-> answer, context |-> context,
                                 citations |-> citations])
    /\ response' = QAResponseOf(result')
    /\ pc' = "done"
    /\ UNCHANGED <<question, docs, serialized, context, citations, draft_answer,
                   raw_answer, answer, exc>>

\* The catch-all exception handler answers the request.
UnhandledExceptionHandler ==
    /\ pc = "raised"
    /\ response' = UnhandledExceptionResponse(exc)
    /\ pc' = "done"
    /\ UNCHANGED <<question, docs, serialized, context, citations, draft_answer,
                   raw_answer, answer, result, exc>>

Next ==
    \/ QaEndpoint
    \/ RetrievalNodeNoToolMessage
    \/ RetrievalNode
    \/ RetrievalNodeRaises
    \/ SummarizationNode
    \/ SummarizationNodeRaises
    \/ VerificationNode
    \/ VerificationNodeRaises
    \/ VerificationNodeEnforcementRaises
    \/ QaEndpointReturn
    \/ UnhandledExceptionHandler

Spec == Init /\ [][Next]_vars

(***************************************************************************)
(* Vocabulary of the properties.                                           *)
(***************************************************************************)
\* The identifiers named by the citation tokens of a text.
CitedIds(s) == {CitationIdOf(s[i]) : i \in {j \in 1..Len(s) : IsCitation(s[j])}}

\* The request ended with an answer payload.
Answered == pc = "done" /\ response.status = 200

\* The sentences of a text, as both passes and the fallback split it.
SentencesOf(s) == {SplitSentences(Strip(s))[i] : i \in 1..Len(SplitSentences(Strip(s)))}

\* The positions of the context block where a chunk rendering starts: a citation
\* token at the start of the block or after a blank line, followed by " (Page".
TagPositions(ctx) ==
    {p \in 1..Len(ctx) :
        /\ IsCitation(ctx[p])
        /\ (p = 1 \/ (p > 2 /\ ctx[p - 1] = "\n" /\ ctx[p - 2] = "\n"))
        /\ p + 2 <= Len(ctx)
        /\ ctx[p + 1] = " "
        /\ ctx[p + 2] = "(Page"}

(***************************************************************************)
(* C1.  No-answer purity: whenever the answer of the response sent by      *)
(* qa_endpoint equals the No-Answer Sentinel exactly, the context and the  *)
(* citations of that response are null, whatever retrieval and generation  *)
(* put into the result.                                                    *)
(***************************************************************************)
C1_NoAnswerPurity ==
    response.answer = Some(NO_ANSWER_TEXT)
        => response.context = None /\ response.citations = None

\* A sentinel answer is sent although retrieval found chunks.
C1_Witness ==
    /\ Answered
    /\ response.answer = Some(NO_ANSWER_TEXT)
    /\ result.context # <<>>
    /\ DOMAIN result.citations # {}

(***************************************************************************)
(* C2.  Coverage guarantee: when the context block holds an identifier and *)
(* the verified answer is not the sentinel, every sentence of the answer   *)
(* returned by answer_question that has more than 3 whitespace-separated   *)
(* tokens contains a citation token.                                       *)
(***************************************************************************)
C2_CoverageGuarantee ==
    (Answered /\ FindAllIds(context) # <<>> /\ answer # NO_ANSWER_TEXT)
        => \A s \in SentencesOf(result.answer) :
               TokenCount(s) > ForcedTokenThreshold => HasCitation(s)

(***************************************************************************)
(* C3.  Vocabulary containment: every citation token that the inner pass,  *)
(* the outer pass or the forced fallback adds to the answer names an       *)
(* identifier that occurs in the context block, also when the block holds  *)
(* no identifier.                                                          *)
(***************************************************************************)
C3_VocabularyContainment ==
    /\ pc \in {"answer", "done"}
          => (CitedIds(answer) \ CitedIds(raw_answer)) \subseteq CitedIds(context)
    /\ Answered
          => (CitedIds(result.answer) \ CitedIds(raw_answer)) \subseteq CitedIds(context)

(***************************************************************************)
(* C4.  Enforcement idempotence: for the text the verification generator   *)
(* returned and the context block of the request, each of                  *)
(* _enforce_citations and _enforce_citations_on_answer applied to its own  *)
(* output returns that output.                                             *)
(***************************************************************************)
C4_EnforcementIdempotence ==
    pc \in {"answer", "done"} =>
        /\ EnforceCitations(answer, context) = answer
        /\ LET once == EnforceCitationsOnAnswer(raw_answer, context)
           IN EnforceCitationsOnAnswer(once, context) = once

C5_Citable(s) ==
    HasDigit(s) \/ HasVerb(s, TRUE) \/ TokenCount(s) > ForcedTokenThreshold

C6_LegalCitationVocabulary ==
    Answered =>
        /\ CitedIds(result.answer) \subseteq CitedIds(context)
        /\ {"C" \o id : id \in CitedIds(result.answer)} \subseteq DOMAIN result.citations

(***************************************************************************)
(* C7.  Identifier bijection: for the chunk list of the request, the       *)
(* citation maps of serialize_chunks_with_ids and of retrieval_node have   *)
(* exactly the keys C1..C|L|; the n-th chunk rendering of the context      *)
(* block carries the tag [C<n>], followed by the text of the n-th chunk,   *)
(* and the map entry C<n> describes the n-th chunk; each key is the tag of *)
(* exactly one rendering; the two functions return the same block and map. *)
(***************************************************************************)
C7_IdentifierBijection ==
    LET keys == {ChunkId(n) : n \in 1..Len(docs)}
        tags == TagPositions(context)
    IN /\ DOMAIN citations = keys
       /\ DOMAIN serialized.citation_map = keys
       /\ serialized.context = context
       /\ serialized.citation_map = citations
       /\ Cardinality(tags) = Len(docs)
       /\ \A n \in 1..Len(docs) :
            /\ Cardinality({p \in tags : context[p] = "[" \o ChunkId(n) \o "]"}) = 1
            /\ \E p \in tags :
                 /\ Cardinality({q \in tags : q < p}) = n - 1
                 /\ context[p] = "[" \o ChunkId(n) \o "]"
                 /\ context[p + 4] = MetadataGet(docs[n], "page")
                 /\ SubSeq(context, p + 7, p + 6 + Len(docs[n].page_content))
                        = docs[n].page_content
            /\ citations[ChunkId(n)].page = MetadataGet(docs[n], "page")
            /\ citations[ChunkId(n)].source = MetadataGet(docs[n], "source")

\* Retrieval returned the largest chunk list, with two different chunks, one
\* of which holds bracketed tokens in its text.
C7_Witness ==
    /\ pc = "summarization"
    /\ Len(docs) = MaxChunks
    /\ docs[1] = DocTagged
    /\ docs[Len(docs)] = DocPlain

(***************************************************************************)
(* C8.  Failure propagation.                                               *)
(***************************************************************************)
\* The generic failure: status 500, "Internal server error", no payload field.
C8_GenericFailure(r) ==
    r = [status |-> 500, detail |-> {"Internal server error"},
         answer |-> {}, context |-> {}, citations |-> {}]

\* A complete payload: status 200 with an answer and with both the context and
\* the citations, or the sentinel with both of them null.
C8_CompletePayload(r) ==
    /\ r.status = 200
    /\ r.detail = {}
    /\ r.answer # {}
    /\ \/ r.context # {} /\ r.citations # {}
       \/ r.context = {} /\ r.citations = {} /\ r.answer = {NO_ANSWER_TEXT}

\* The rejection of a blank question: status 400 with a detail and no payload field.
C8_Rejected(r) ==
    /\ r.status = 400
    /\ r.detail # {}
    /\ r.answer = {} /\ r.context = {} /\ r.citations = {}

(***************************************************************************)
(* C8, as claimed.  A request in which retrieval, draft generation,        *)
(* verification or enforcement failed ends with the generic failure and no *)
(* payload; every request ends either with a complete payload or with the  *)
(* generic failure; nothing is sent before the request ends.               *)
(***************************************************************************)
C8_FailurePropagation ==
    /\ pc # "done" => response = NoResponse
    /\ (pc = "done" /\ exc.stage # "none") => C8_GenericFailure(response)
    /\ pc = "done" => C8_CompletePayload(response) \/ C8_GenericFailure(response)

(***************************************************************************)
(* C8, amended.  As claimed for every request whose question is not blank; *)
(* a request whose question is empty or blank ends with the status 400     *)
(* rejection, which carries no payload either.                             *)
(***************************************************************************)
C8_FailurePropagationAmended ==
    /\ pc # "done" => response = NoResponse
    /\ (pc = "done" /\ exc.stage # "none") => C8_GenericFailure(response)
    /\ (pc = "done" /\ Strip(question) # <<>>)
          => C8_CompletePayload(response) \/ C8_GenericFailure(response)
    /\ (pc = "done" /\ Strip(question) = <<>>) => C8_Rejected(response)

\* Verification failed after retrieval and drafting had filled the state.
C8_Witness ==
    /\ pc = "done"
    /\ exc.stage \in {"verification", "enforcement"}
    /\ context # <<>>
    /\ draft_answer # <<>>
    /\ response.status = 500

(***************************************************************************)
(* C9.  Total groundlessness: when the context block holds no citation     *)
(* identifier, the answer returned equals the text the verification        *)
(* generator produced.                                                     *)
(***************************************************************************)
C9_TotalGroundlessness ==
    (Answered /\ FindAllIds(context) = <<>>) => result.answer = raw_answer

(***************************************************************************)
(* C10.  The sentinel is never cited: when the verification generator      *)
(* returns exactly the No-Answer Sentinel, the inner pass leaves it        *)
(* unchanged, and so do the outer pass and the forced fallback: the answer *)
(* returned by answer_question is the sentinel, with no citation token.    *)
(***************************************************************************)
C10_SentinelNeverCited ==
    /\ (pc \in {"answer", "done"} /\ raw_answer = NO_ANSWER_TEXT)
          => answer = NO_ANSWER_TEXT
    /\ (Answered /\ raw_answer = NO_ANSWER_TEXT)
          => result.answer = NO_ANSWER_TEXT /\ ~HasCitation(result.answer)

\* The sentinel went through the pipeline with a context block that holds
\* identifiers.
C10_Witness ==
    /\ Answered
    /\ raw_answer = NO_ANSWER_TEXT
    /\ FindAllIds(context) # <<>>

(***************************************************************************)
(* C11.  Factual classification.                                           *)
(***************************************************************************)
\* Factual, as the claim defines it: the sentence holds a digit, or one of the
\* verbs as a whole word in any letter case, or more than 5 tokens.
C11_Factual(s) ==
    HasDigit(s) \/ HasVerb(s, TRUE) \/ TokenCount(s) > FactualTokenThreshold

\* The sentences of the generator's text that hold no citation token, in a
\* request whose context block holds an identifier and whose text is not
\* exempted from enforcement as a no-answer message.
C11_UncitedSentences ==
    IF pc \in {"answer", "done"} /\ FindAllIds(context) # <<>>
          /\ ~Contains(raw_answer, NoAnswerPhrase)
    THEN {s \in SentencesOf(raw_answer) : s # <<>> /\ ~HasCitation(s)}
    ELSE {}

(***************************************************************************)
(* C11.  Factual classification: in one pass over a context with an        *)
(* identifier, _enforce_citations and _enforce_citations_on_answer each    *)
(* append a citation to an uncited sentence if and only if the sentence    *)
(* holds a digit, or one of the nine verbs as a whole word in any letter   *)
(* case, or more than 5 tokens; every other uncited sentence is returned   *)
(* as it is.                                                               *)
(***************************************************************************)
C11_FactualClassification ==
    \A s \in C11_UncitedSentences :
        /\ HasCitation(EnforceCitations(s, context)) <=> C11_Factual(s)
        /\ HasCitation(EnforceCitationsOnAnswer(s, context)) <=> C11_Factual(s)
        /\ ~C11_Factual(s) =>
              /\ EnforceCitations(s, context) = s
              /\ EnforceCitationsOnAnswer(s, context) = s

(***************************************************************************)
(* C12.  Citation attachment.                                              *)
(***************************************************************************)
\* The replacement the claim describes: the sentence with one trailing '.',
\* '!' or '?' removed if it ends with one, then a space, then [C<k>] for the
\* first identifier k of the context block, then a period.
C12_Attached(s, ctx) ==
    (IF s # <<>> /\ s[Len(s)] \in {".", "!", "?"} THEN SubSeq(s, 1, Len(s) - 1) ELSE s)
        \o <<" ", "[C" \o FindAllIds(ctx)[1] \o "]", ".">>

(***************************************************************************)
(* C12.  Citation attachment: each pass (_enforce_citations and            *)
(* _enforce_citations_on_answer) replaces every uncited sentence that it   *)
(* finds factual, whichever of '.', '!' or '?' the sentence ends with, or  *)
(* none, by the sentence with one trailing terminator removed, a space,    *)
(* the token [C<k>] of the first identifier of the context block, and a    *)
(* period.  (Factual is taken as each pass itself decides it, so that the  *)
(* letter case of verbs, which is C11's matter, plays no part here.)       *)
(***************************************************************************)
C12_CitationAttachment ==
    \A s \in C11_UncitedSentences :
        /\ IsFactualInner(s) => EnforceCitations(s, context) = C12_Attached(s, context)
        /\ IsFactualOuter(s)
              => EnforceCitationsOnAnswer(s, context) = C12_Attached(s, context)

(***************************************************************************)
(* C13.  One notion of "no answer": whenever the inner pass and            *)
(* answer_question both skip enforcement because the answer holds the      *)
(* no-answer phrase, qa_endpoint sends that answer with context and        *)
(* citations null; no answer is exempted from citation enforcement and     *)
(* sent with a context and a citation map.                                 *)
(***************************************************************************)
C13_NoAnswerAgreement ==
    (Answered
        /\ Contains(raw_answer, NoAnswerPhrase)
        /\ Contains(answer, NoAnswerPhrase))
        => response.context = None /\ response.citations = None

====
